---- MODULE Spec2Model ----
(***************************************************************************)
(* Model of models/experimental/resnet_float16/resnet_main.py:             *)
(*   - the train/evaluate driver loop of main() together with the          *)
(*     checkpointed global step and the epoch report file,                 *)
(*   - the variable custom getter (get_custom_getter.inner_custom_getter), *)
(*   - learning_rate_schedule.                                             *)
(* Floating point values are modelled by exact rationals <<num, den>>.     *)
(***************************************************************************)
EXTENDS Integers, Sequences, FiniteSets, TLC

VARIABLES
  \* ---- driver (main) ----
  train_batch_size,   \* FLAGS.train_batch_size
  global_step,        \* global step persisted in the checkpoint directory
  file,               \* {model_dir}/epoch_results.tsv
  pc,                 \* position of the driver process
  current_epoch,      \* local of main
  batches_per_epoch,  \* local of main
  next_checkpoint,    \* local of main
  results,            \* local of main
  active,             \* estimator calls that are currently executing
  crashes,            \* number of process restarts so far
  \* ---- history of the driver (observers, never read by the program) ----
  initStep,           \* persisted global step at the very beginning
  runStartStep,       \* persisted global step when the current process started
  initEpoch,          \* current_epoch computed when the current process started
  epochAtIterStart,   \* current_epoch at the head of the current iteration
  trainsDone,         \* train calls returned in the current process
  evalsDone,          \* evaluate calls returned in the current process
  fileAtStart,        \* content of the report file when the process started
  \* ---- custom getter ----
  var_store,          \* variables created by the underlying getter: name -> dtype
  requested,          \* last request <<name, dtype>> passed to the custom getter
  returned,           \* value the custom getter returned for it
  \* ---- learning rate schedule ----
  lr_epoch,           \* fractional epoch, numerator over EpochDen
  lr_rate,            \* learning_rate_schedule(lr_epoch) once computed
  lr_prev             \* rate of the preceding grid point when stepped to this one

driverVars == <<train_batch_size, global_step, file, pc, current_epoch,
                batches_per_epoch, next_checkpoint, results, active, crashes,
                initStep, runStartStep, initEpoch, epochAtIterStart,
                trainsDone, evalsDone, fileAtStart>>
getterVars == <<var_store, requested, returned>>
lrVars == <<lr_epoch, lr_rate, lr_prev>>
vars == <<driverVars, getterVars, lrVars>>

----------------------------------------------------------------------------
\* Program constants

NUM_TRAIN_IMAGES == 1281167

EPOCH_CEILING == 100

\* Bounds of the model

MaxCrashes == 1

MaxInitHalfEpochs == 3

BatchSizes == {256, 1024, 2048}

None == "none"

Max0(x) == IF x > 0 THEN x ELSE 0

----------------------------------------------------------------------------
\* Driver: main(), lines 393-432

HEADER == <<"epoch", "hours", "top1Accuracy", "top5Accuracy">>

NoFile == [header |-> <<>>, rows |-> <<>>]

\* current_epoch = current_step // FLAGS.train_batch_size
EpochOfStep(step, bs) == step \div bs

\* batches_per_epoch = NUM_TRAIN_IMAGES // FLAGS.train_batch_size
BatchesPerEpoch(bs) == NUM_TRAIN_IMAGES \div bs

\* off-by-one loop test
LoopCond_Inclusive(epoch) == epoch <= EPOCH_CEILING

\* while current_epoch < 100
LoopCond(epoch) == epoch < EPOCH_CEILING

\* next_checkpoint = (current_epoch + 1) * batches_per_epoch
NextCheckpoint(epoch, bpe) == (epoch + 1) * bpe

\* Estimator.train(max_steps=m): trains until the global step is m; a no-op
\* when the persisted global step has already reached m.
TrainTo(step, m) == IF step >= m THEN step ELSE m

\* the row appended to results; the two accuracy columns both print
\* eval_results['accuracy'], here identified by the evaluated checkpoint.
ResultRow(epoch, eval_results) ==
  [epoch |-> epoch, top1 |-> eval_results, top5 |-> eval_results]

\* the steps a checkpoint directory may hold when the job is first launched
InitialSteps(bs) ==
  {k * (BatchesPerEpoch(bs) \div 2) : k \in 0..MaxInitHalfEpochs}

DriverInit ==
  /\ train_batch_size \in BatchSizes
  /\ global_step \in InitialSteps(train_batch_size)
  /\ file = NoFile
  /\ pc = "start"
  /\ current_epoch = 0
  /\ batches_per_epoch = 0
  /\ next_checkpoint = 0
  /\ results = <<>>
  /\ active = {}
  /\ crashes = 0
  /\ initStep = global_step
  /\ runStartStep = global_step
  /\ initEpoch = 0
  /\ epochAtIterStart = 0
  /\ trainsDone = 0
  /\ evalsDone = 0
  /\ fileAtStart = NoFile

\* lines 393-397: load the global step, derive the epoch, empty the results
Start ==
  /\ pc = "start"
  /\ current_epoch' = EpochOfStep(global_step, train_batch_size)
  /\ batches_per_epoch' = BatchesPerEpoch(train_batch_size)
  /\ results' = <<>>
  /\ initEpoch' = current_epoch'
  /\ runStartStep' = global_step
  /\ fileAtStart' = file
  /\ pc' = "loop"
  /\ UNCHANGED <<train_batch_size, global_step, file, next_checkpoint, active,
                 crashes, initStep, epochAtIterStart, trainsDone, evalsDone>>

\* lines 399-403: loop test true, compute the target, enter train()
TrainCall ==
  /\ pc = "loop"
  /\ LoopCond(current_epoch)
  /\ next_checkpoint' = NextCheckpoint(current_epoch, batches_per_epoch)
  /\ epochAtIterStart' = current_epoch
  /\ active' = active \cup {"train"}
  /\ pc' = "train"
  /\ UNCHANGED <<train_batch_size, global_step, file, current_epoch,
                 batches_per_epoch, results, crashes, initStep, runStartStep,
                 initEpoch, trainsDone, evalsDone, fileAtStart>>

\* a train call that hands control back while training is still executing
TrainReturn_Async ==
  /\ pc = "train"
  /\ global_step' = TrainTo(global_step, next_checkpoint)
  /\ current_epoch' = current_epoch + 1
  /\ active' = active
  /\ trainsDone' = trainsDone + 1
  /\ pc' = "trained"
  /\ UNCHANGED <<train_batch_size, file, batches_per_epoch, next_checkpoint,
                 results, crashes, initStep, runStartStep, initEpoch,
                 epochAtIterStart, evalsDone, fileAtStart>>

\* lines 402-404: train() returns with the checkpoint written, epoch += 1
TrainReturn ==
  /\ pc = "train"
  /\ global_step' = TrainTo(global_step, next_checkpoint)
  /\ current_epoch' = current_epoch + 1
  /\ active' = active \ {"train"}
  /\ trainsDone' = trainsDone + 1
  /\ pc' = "trained"
  /\ UNCHANGED <<train_batch_size, file, batches_per_epoch, next_checkpoint,
                 results, crashes, initStep, runStartStep, initEpoch,
                 epochAtIterStart, evalsDone, fileAtStart>>

\* lines 413-416: enter evaluate()
EvalCall ==
  /\ pc = "trained"
  /\ active' = active \cup {"eval"}
  /\ pc' = "eval"
  /\ UNCHANGED <<train_batch_size, global_step, file, current_epoch,
                 batches_per_epoch, next_checkpoint, results, crashes, initStep,
                 runStartStep, initEpoch, epochAtIterStart, trainsDone,
                 evalsDone, fileAtStart>>

\* a driver that flushes the report after every epoch
EvalReturn_Flush ==
  /\ pc = "eval"
  /\ active' = active \ {"eval"}
  /\ results' = Append(results, ResultRow(current_epoch, global_step))
  /\ file' = [header |-> HEADER, rows |-> results']
  /\ evalsDone' = evalsDone + 1
  /\ pc' = "loop"
  /\ UNCHANGED <<train_batch_size, global_step, current_epoch,
                 batches_per_epoch, next_checkpoint, crashes, initStep,
                 runStartStep, initEpoch, epochAtIterStart, trainsDone,
                 fileAtStart>>

\* lines 414-427: evaluate() returns, the row is appended to results
EvalReturn ==
  /\ pc = "eval"
  /\ active' = active \ {"eval"}
  /\ results' = Append(results, ResultRow(current_epoch, global_step))
  /\ evalsDone' = evalsDone + 1
  /\ pc' = "loop"
  /\ UNCHANGED <<train_batch_size, global_step, file, current_epoch,
                 batches_per_epoch, next_checkpoint, crashes, initStep,
                 runStartStep, initEpoch, epochAtIterStart, trainsDone,
                 fileAtStart>>

\* lines 399, 429-432: loop test false, the report file is opened 'wb' and
\* the header and all accumulated rows are written
LoopExit ==
  /\ pc = "loop"
  /\ ~LoopCond(current_epoch)
  /\ file' = [header |-> HEADER, rows |-> results]
  /\ pc' = "done"
  /\ UNCHANGED <<train_batch_size, global_step, current_epoch,
                 batches_per_epoch, next_checkpoint, results, active, crashes,
                 initStep, runStartStep, initEpoch, epochAtIterStart,
                 trainsDone, evalsDone, fileAtStart>>

\* The process dies (no in-core handling, spec section 7) and the supervisor
\* starts it again: everything in memory is lost, the checkpoint directory
\* and the report file are what they were.
Crash ==
  /\ pc \in {"loop", "train", "trained", "eval"}
  /\ crashes < MaxCrashes
  /\ crashes' = crashes + 1
  /\ pc' = "start"
  /\ current_epoch' = 0
  /\ batches_per_epoch' = 0
  /\ next_checkpoint' = 0
  /\ results' = <<>>
  /\ active' = {}
  /\ initEpoch' = 0
  /\ epochAtIterStart' = 0
  /\ trainsDone' = 0
  /\ evalsDone' = 0
  /\ UNCHANGED <<train_batch_size, global_step, file, initStep, runStartStep,
                 fileAtStart>>

\* the steps of the driver process itself
DriverStep ==
  /\ \/ Start
     \/ TrainCall
     \/ TrainReturn
     \/ EvalCall
     \/ EvalReturn
     \/ LoopExit
  /\ UNCHANGED <<var_store, requested, returned, lr_epoch, lr_rate, lr_prev>>

----------------------------------------------------------------------------
\* Custom getter: get_custom_getter.inner_custom_getter, lines 204-221

DTypes == {"bfloat16", "float32", "float16", "int32"}

VarNames == {"conv2d/kernel", "dense/kernel", "dense/bias"}

\* the underlying getter creates the variable with the dtype it is handed
Variable(name, dtype) == [kind |-> "variable", name |-> name, dtype |-> dtype]

\* tf.cast(x, dtype): a tensor of the given dtype read from x
Cast(x, dtype) == [kind |-> "tensor", name |-> x.name, dtype |-> dtype]

\* kwargs['dtype'] as handed to the underlying getter (lines 207-212)
StorageDtype(requested_dtype) ==
  IF requested_dtype = "bfloat16" THEN "float32" ELSE requested_dtype

\* cast_to_bfloat16 (lines 206-212)
CastToBfloat16(requested_dtype) == requested_dtype = "bfloat16"

\* the value returned to the caller (lines 213-221)
inner_custom_getter(name, requested_dtype) ==
  LET var == Variable(name, StorageDtype(requested_dtype))
  IN  IF CastToBfloat16(requested_dtype) THEN Cast(var, "float32") ELSE var

GetterInit ==
  /\ var_store = [n \in VarNames |-> None]
  /\ requested = None
  /\ returned = None

\* one variable-creation request of the network passing through the getter
GetVariable ==
  \E name \in VarNames, dtype \in DTypes :
    /\ var_store[name] = None
    /\ var_store' = [var_store EXCEPT ![name] = StorageDtype(dtype)]
    /\ requested' = <<name, dtype>>
    /\ returned' = inner_custom_getter(name, dtype)

----------------------------------------------------------------------------
\* Learning rate schedule: lines 151-182, driven per step by lines 294-298

EpochDen == 4

MaxLREpoch == 100

RECURSIVE GCD(_, _)
GCD(a, b) == IF b = 0 THEN a ELSE GCD(b, a % b)

Rat(n, d) == LET g == GCD(n, d) IN <<n \div g, d \div g>>

RMul(x, y) == Rat(x[1] * y[1], x[2] * y[2])

RDiv(x, y) == Rat(x[1] * y[2], x[2] * y[1])

RLess(x, y) == x[1] * y[2] < y[1] * x[2]

RLeq(x, y) == x[1] * y[2] <= y[1] * x[2]

BASE_LEARNING_RATE == Rat(1, 10)

LR_SCHEDULE ==
  << <<Rat(1, 1), 5>>, <<Rat(1, 10), 30>>, <<Rat(1, 100), 60>>,
     <<Rat(1, 1000), 80>> >>

\* scaled_lr = BASE_LEARNING_RATE * (FLAGS.train_batch_size / 256.0)
ScaledLR == RMul(BASE_LEARNING_RATE, RDiv(Rat(train_batch_size, 1), Rat(256, 1)))

\* a schedule entry that takes effect one grid point late
EpochBefore_Inclusive(current, start_epoch) == RLeq(current, Rat(start_epoch, 1))

\* current_epoch < start_epoch (line 180)
EpochBefore(current, start_epoch) == RLess(current, Rat(start_epoch, 1))

\* tf.where on scalars
Where(cond, x, y) == IF cond THEN x ELSE y

\* the for loop of lines 179-181 from entry i on
RECURSIVE ScheduleLoop(_, _, _)
ScheduleLoop(i, current, decay_rate) ==
  IF i > Len(LR_SCHEDULE)
    THEN decay_rate
    ELSE ScheduleLoop(i + 1, current,
           Where(EpochBefore(current, LR_SCHEDULE[i][2]),
                 decay_rate, RMul(ScaledLR, LR_SCHEDULE[i][1])))

learning_rate_schedule(current) ==
  LET decay_rate ==
        RDiv(RMul(RMul(ScaledLR, LR_SCHEDULE[1][1]), current),
             Rat(LR_SCHEDULE[1][2], 1))
  IN  ScheduleLoop(1, current, decay_rate)

LRInit ==
  /\ lr_epoch \in 0..(MaxLREpoch * EpochDen)
  /\ lr_rate = None
  /\ lr_prev = None

\* resnet_model_fn computes the rate of the current fractional epoch
ComputeLR ==
  /\ lr_rate = None
  /\ lr_rate' = learning_rate_schedule(Rat(lr_epoch, EpochDen))
  /\ UNCHANGED <<lr_epoch, lr_prev>>

\* training advances and the rate is computed again
AdvanceLR ==
  /\ lr_rate # None
  /\ lr_epoch < MaxLREpoch * EpochDen
  /\ lr_epoch' = lr_epoch + 1
  /\ lr_prev' = lr_rate
  /\ lr_rate' = learning_rate_schedule(Rat(lr_epoch', EpochDen))

----------------------------------------------------------------------------
\* Idle values of the parts a specification does not exercise

GetterIdle == var_store = <<>> /\ requested = None /\ returned = None

LRIdle == lr_epoch = 0 /\ lr_rate = None /\ lr_prev = None

DriverIdle ==
  /\ global_step = 0
  /\ file = NoFile
  /\ pc = "idle"
  /\ current_epoch = 0
  /\ batches_per_epoch = 0
  /\ next_checkpoint = 0
  /\ results = <<>>
  /\ active = {}
  /\ crashes = 0
  /\ initStep = 0
  /\ runStartStep = 0
  /\ initEpoch = 0
  /\ epochAtIterStart = 0
  /\ trainsDone = 0
  /\ evalsDone = 0
  /\ fileAtStart = NoFile

Init == DriverInit /\ GetterIdle /\ LRIdle

Next ==
  \/ Start /\ UNCHANGED <<getterVars, lrVars>>
  \/ TrainCall /\ UNCHANGED <<getterVars, lrVars>>
  \/ TrainReturn /\ UNCHANGED <<getterVars, lrVars>>
  \/ EvalCall /\ UNCHANGED <<getterVars, lrVars>>
  \/ EvalReturn /\ UNCHANGED <<getterVars, lrVars>>
  \/ LoopExit /\ UNCHANGED <<getterVars, lrVars>>
  \/ Crash /\ UNCHANGED <<getterVars, lrVars>>

Spec == Init /\ [][Next]_vars

\* every train and evaluate call returns and the driver keeps running
FairSpec == Init /\ [][Next]_vars /\ WF_vars(DriverStep)

GetterSpecInit == DriverIdle /\ train_batch_size = 256 /\ GetterInit /\ LRIdle

GetterNext == GetVariable /\ UNCHANGED <<driverVars, lrVars>>

GetterSpec == GetterSpecInit /\ [][GetterNext]_vars

LRSpecInit ==
  DriverIdle /\ train_batch_size \in BatchSizes /\ GetterIdle /\ LRInit

LRNext ==
  \/ ComputeLR /\ UNCHANGED <<driverVars, getterVars>>
  \/ AdvanceLR /\ UNCHANGED <<driverVars, getterVars>>

LRSpec == LRSpecInit /\ [][LRNext]_vars

----------------------------------------------------------------------------
\* Properties of the driver

StepsPerEpoch == NUM_TRAIN_IMAGES \div train_batch_size

\* C1: a run started at global step 0 that completed epoch E (0..99) and is
\* restarted from that checkpoint computes (E + 1) * steps_per_epoch as its
\* first training target.
C1_ResumeTarget ==
  ( /\ initStep = 0
    /\ crashes = 1
    /\ pc = "train"
    /\ trainsDone = 0
    /\ global_step < EPOCH_CEILING * StepsPerEpoch )
  => next_checkpoint = ((global_step \div StepsPerEpoch) + 1) * StepsPerEpoch

\* C2: at every loop head current_epoch is the persisted global step divided
\* by steps_per_epoch.
C2_EpochDerived ==
  pc = "loop" => current_epoch = global_step \div StepsPerEpoch

\* C3: when the train call of an iteration has returned, the persisted global
\* step is (current_epoch + 1) * steps_per_epoch for the current_epoch of the
\* iteration head, and the row appended by the iteration carries
\* current_epoch + 1.
C3_TrainsToTarget ==
  /\ pc \in {"trained", "eval"}
       => global_step = (epochAtIterStart + 1) * StepsPerEpoch
  /\ (pc = "loop" /\ evalsDone > 0)
       => results[Len(results)].epoch = epochAtIterStart + 1

\* C4: train and evaluate never execute at the same time, the train call of
\* an iteration has returned before its evaluate call starts, and that
\* evaluate call has returned before the next train call starts.
C4_PhaseOrdering ==
  /\ Cardinality(active) <= 1
  /\ evalsDone <= trainsDone
  /\ trainsDone <= evalsDone + 1
  /\ "train" \in active => (pc = "train" /\ trainsDone = evalsDone)
  /\ "eval" \in active => (pc = "eval" /\ trainsDone = evalsDone + 1)
  /\ pc = "train" => "train" \in active
  /\ pc = "eval" => "eval" \in active

C4_Witness ==
  pc = "eval" /\ active = {"eval"} /\ trainsDone = 3 /\ evalsDone = 2

FirstCompletedEpoch == (runStartStep \div StepsPerEpoch) + 1

LastCompletedEpoch == global_step \div StepsPerEpoch

\* C6: at loop exit the report file holds the header and exactly one row per
\* epoch completed by the run, epoch fields consecutive, none missing and
\* none duplicated.
C6_ReportContent ==
  pc = "done" =>
    /\ file.header = HEADER
    /\ Len(file.rows) = Max0(LastCompletedEpoch - FirstCompletedEpoch + 1)
    /\ \A i \in 1..Len(file.rows) :
         file.rows[i].epoch = FirstCompletedEpoch + i - 1

\* C7: until the loop has exited the report file holds none of the rows of
\* this run; a crash discards the accumulated rows, leaves the file as it was
\* when the process started and leaves the persisted global step where the
\* completed train calls put it.
C7_DurabilityGap ==
  /\ [](pc # "done" => file = fileAtStart)
  /\ [][Crash => /\ results' = <<>>
                 /\ file' = fileAtStart
                 /\ global_step' = global_step
                 /\ ((trainsDone > 0 /\ pc # "train")
                      => global_step' >= next_checkpoint)]_vars

C7_Witness ==
  /\ crashes = 1
  /\ pc = "start"
  /\ results = <<>>
  /\ file = NoFile
  /\ global_step >= initStep + 2 * StepsPerEpoch

----------------------------------------------------------------------------
\* Properties of the custom getter

\* C8: a bfloat16 request creates the variable as float32 and returns a value
\* of dtype bfloat16; any other request is passed through unchanged and the
\* created variable is returned uncast.
C8_CastPolicy ==
  requested # None =>
    LET name == requested[1]
        dtype == requested[2]
    IN  IF dtype = "bfloat16"
          THEN var_store[name] = "float32" /\ returned.dtype = "bfloat16"
          ELSE var_store[name] = dtype /\ returned = Variable(name, dtype)

----------------------------------------------------------------------------
\* Properties of the learning rate schedule

Epoch == Rat(lr_epoch, EpochDen)

Zero == Rat(0, 1)

\* C9: the learning rate is 0 for every fractional epoch >= 90.
C9_ZeroAfter90 ==
  (lr_rate # None /\ ~RLess(Epoch, Rat(90, 1))) => lr_rate = Zero

\* the entries of the schedule whose start epoch is not after e
Started(e) == {i \in 1..Len(LR_SCHEDULE) : RLeq(Rat(LR_SCHEDULE[i][2], 1), e)}

LastStarted(e) == CHOOSE i \in Started(e) : \A j \in Started(e) : j <= i

====
